---- MODULE Spec2Model ----
(***************************************************************************)
(* Model of python_snappy.snappy: the pure-Python decoder of the Snappy    *)
(* raw block format (_decode_varint and decompress).                       *)
(*                                                                         *)
(* Indices are 0-based as in the source; At(s, i) is s[i].                 *)
(*                                                                         *)
(* Python integers are unbounded.  The only quantity of the decoder that   *)
(* the inputs of this model push beyond 31 bits is the value of the length *)
(* varint (up to 35 bits), so that value is held as two limbs              *)
(* [hi, lo] = hi * 2^28 + lo.  Every other integer stays below 2^31.       *)
(*                                                                         *)
(* bytearray(uncompressed_len) is zero-filled.  `output` holds the cells   *)
(* up to the highest index written so far; the cells above it are the      *)
(* zeros of the allocation (OutAt), and `out_size` is the allocated size.  *)
(***************************************************************************)
EXTENDS Integers, Sequences, FiniteSets, TLC

VARIABLES data, pos, uncompressed_len, output, out_size, out_pos,
          pc, err, result, elem, orig

vars == <<data, pos, uncompressed_len, output, out_size, out_pos,
          pc, err, result, elem, orig>>

----------------------------------------------------------------------------
(* Bounds of the input space *)

MaxLen == 3
MaxPlain == 4
MaxRun == 12
MaxElems == 1
MaxLit == 62
MaxVarintBytes == 6
MaxStart == 2

----------------------------------------------------------------------------
(* Integer and byte helpers *)

RECURSIVE Pow2(_)
Pow2(n) == IF n = 0 THEN 1 ELSE 2 * Pow2(n - 1)

Shl(a, n) == a * Pow2(n)

Shr(a, n) == a \div Pow2(n)

RECURSIVE BitAnd(_, _)
BitAnd(a, b) ==
    IF a = 0 \/ b = 0 THEN 0
    ELSE (IF a % 2 = 1 /\ b % 2 = 1 THEN 1 ELSE 0) + 2 * BitAnd(a \div 2, b \div 2)

RECURSIVE BitOr(_, _)
BitOr(a, b) ==
    IF a = 0 THEN b
    ELSE IF b = 0 THEN a
    ELSE (IF a % 2 = 1 \/ b % 2 = 1 THEN 1 ELSE 0) + 2 * BitOr(a \div 2, b \div 2)

At(s, i) == s[i + 1]

(* s[from:to]; a Python slice stops at the end of s *)
Slice(s, from, to) == SubSeq(s, from + 1, IF to < Len(s) THEN to ELSE Len(s))

Zeros(n) == [i \in 1..n |-> 0]

(* the length varint, hi * 2^28 + lo *)
LimbBits == 4 * 7

Limbs(n) == [hi |-> Shr(n, LimbBits), lo |-> n % Pow2(LimbBits)]

LimbLess(a, b) == a.hi < b.hi \/ (a.hi = b.hi /\ a.lo < b.lo)

(* the groups placed 8 bits apart *)
LimbOrShifted_ByteApart(r, part, shift) ==
    IF shift < LimbBits
    THEN [hi |-> r.hi, lo |-> BitOr(r.lo, Shl(part, (shift \div 7) * 8))]
    ELSE [hi |-> BitOr(r.hi, Shl(part, shift - LimbBits)), lo |-> r.lo]

(* result |= part << shift, on limbs; part is 7 bits and shift a multiple of 7 *)
LimbOrShifted(r, part, shift) ==
    IF shift < LimbBits
    THEN [hi |-> r.hi, lo |-> BitOr(r.lo, Shl(part, shift))]
    ELSE [hi |-> BitOr(r.hi, Shl(part, shift - LimbBits)), lo |-> r.lo]

----------------------------------------------------------------------------
(* CompressionError messages *)

ErrTruncatedVarint == "Truncated varint in snappy data"
ErrVarintTooLarge == "Varint too large in snappy data"
ErrTruncatedLiteralLength == "Truncated literal length"
ErrTruncatedLiteralData == "Truncated literal data"
ErrOverflowLiteral == "Output overflow in literal"
ErrTruncatedCopy1 == "Truncated copy1 offset"
ErrTruncatedCopy2 == "Truncated copy2 offset"
ErrTruncatedCopy4 == "Truncated copy4 offset"
ErrZeroOffset == "Invalid zero offset in copy"
ErrOffsetExceeds == "Copy offset exceeds output position"
ErrOverflowCopy1 == "Output overflow in copy1"
ErrOverflowCopy2 == "Output overflow in copy2"
ErrOverflowCopy4 == "Output overflow in copy4"
ErrSizeMismatch == "Output size mismatch"

NoErr == "none"

NoBytes == [cells |-> <<>>, size |-> [hi |-> -1, lo |-> -1]]

----------------------------------------------------------------------------
(* _decode_varint *)

(* the limit one 7-bit group higher *)
VarintShiftLimit_OneGroupMore == 32 + 7

(* the limit one 7-bit group lower *)
VarintShiftLimit_OneGroupLess == 32 - 7

VarintShiftLimit == 32

RECURSIVE VarintLoop(_, _, _, _)
VarintLoop(d, p, res, shift) ==
    IF p >= Len(d)
    THEN [ok |-> FALSE, err |-> ErrTruncatedVarint, value |-> res, pos |-> p]
    ELSE LET byte == At(d, p)
             (* result |= (byte & 0x7F) << shift, on the value of result so far *)
             res1 == CHOOSE v \in {LimbOrShifted(r, BitAnd(byte, 127), shift) :
                                      r \in {res}} : TRUE
         IN  IF BitAnd(byte, 128) = 0
             THEN [ok |-> TRUE, err |-> NoErr, value |-> res1, pos |-> p + 1]
             ELSE IF shift + 7 > VarintShiftLimit
                  THEN [ok |-> FALSE, err |-> ErrVarintTooLarge,
                        value |-> res1, pos |-> p + 1]
                  ELSE VarintLoop(d, p + 1, res1, shift + 7)

decode_varint(d, p) == VarintLoop(d, p, [hi |-> 0, lo |-> 0], 0)

----------------------------------------------------------------------------
(* The output bytearray *)

OutAt(buf, i) == IF i < Len(buf) THEN buf[i + 1] ELSE 0

SetAt(buf, i, b) ==
    IF i < Len(buf) THEN [buf EXCEPT ![i + 1] = b]
    ELSE buf \o Zeros(i - Len(buf)) \o <<b>>

(* output[from : from + len(bytes)] = bytes, for a slice inside the buffer *)
SetSlice(buf, from, bytes) ==
    LET top == IF from + Len(bytes) > Len(buf) /\ bytes # <<>>
               THEN from + Len(bytes) ELSE Len(buf)
    IN  [k \in 1..top |->
            IF k > from /\ k <= from + Len(bytes) THEN bytes[k - from]
            ELSE OutAt(buf, k - 1)]

(* the copy done as a block move of the bytes present before the copy *)
CopyLoop_Block(buf, op, offset, length, i) ==
    SetSlice(buf, op, [k \in 1..length |-> OutAt(buf, op - offset + k - 1)])

(* for i in range(length): output[out_pos + i] = output[out_pos - offset + i] *)
(* each iteration works on the value of the buffer the one before produced *)
RECURSIVE CopyLoop(_, _, _, _, _)
CopyLoop(buf, op, offset, length, i) ==
    IF i >= length THEN buf
    ELSE CopyLoop(CHOOSE next \in {SetAt(b, op + i, OutAt(b, op - offset + i)) :
                                       b \in {buf}} : TRUE,
                  op, offset, length, i + 1)

(* bytes(output) for an allocation of `size` cells: the written cells and the size *)
Bytes(buf, size) == [cells |-> buf, size |-> size]

EmptyBytes == Bytes(<<>>, [hi |-> 0, lo |-> 0])

----------------------------------------------------------------------------
(* Field decoding *)

LiteralDirectMax == 60

(* length = 1; for i in range(extra_bytes): length += data[pos + i] << (i * 8) *)
RECURSIVE LiteralExtLoop(_, _, _, _, _)
LiteralExtLoop(d, p, extra_bytes, i, length) ==
    IF i >= extra_bytes THEN length
    ELSE LiteralExtLoop(d, p, extra_bytes, i + 1, length + Shl(At(d, p + i), i * 8))

(* the extension bytes taken as the length itself *)
LiteralExtLength_NoPlusOne(d, p, extra_bytes) == LiteralExtLoop(d, p, extra_bytes, 0, 0)

LiteralExtLength(d, p, extra_bytes) == LiteralExtLoop(d, p, extra_bytes, 0, 1)

Copy1Length(tag) == BitAnd(Shr(tag, 2), 7) + 4

(* the offset taken from the byte after the tag alone *)
Copy1Offset_NoHigh(d, p, tag) == At(d, p)

Copy1Offset(d, p, tag) == BitOr(Shl(Shr(tag, 5), 8), At(d, p))

Copy2Length(tag) == Shr(tag, 2) + 1

(* the two offset bytes read most significant first *)
Copy2Offset_BigEndian(d, p) == BitOr(Shl(At(d, p), 8), At(d, p + 1))

Copy2Offset(d, p) == BitOr(At(d, p), Shl(At(d, p + 1), 8))

Copy4Length(tag) == Shr(tag, 2) + 1

Copy4Offset(d, p) ==
    BitOr(BitOr(BitOr(At(d, p), Shl(At(d, p + 1), 8)), Shl(At(d, p + 2), 16)),
          Shl(At(d, p + 3), 24))

----------------------------------------------------------------------------
(* History: the last element the loop looked at, with the cursors and the  *)
(* output as they were before it, and the number n of loop iterations      *)
(* begun so far.  The decoder never reads it.                              *)

NoElem == [type |-> "none", tag |-> -1, length |-> -1, offset |-> -1,
           extra |-> -1, pos0 |-> -1, out0 |-> -1, pre |-> <<>>, n |-> 0]

Elem(type, tag, length, offset, extra) ==
    [type |-> type, tag |-> tag, length |-> length, offset |-> offset,
     extra |-> extra, pos0 |-> pos, out0 |-> out_pos, pre |-> output,
     n |-> elem.n + 1]

----------------------------------------------------------------------------
(* The inputs.  The encoding side of the block format (EncodeVarint,        *)
(* EncLiteral, EncCopy, EncodeFrom) is not in the repository; it is written *)
(* here from the format only to draw the streams the decoder is run on.     *)

PlainBytes == {97, 98}

NoOrig == <<-2>>

SeqsUpTo(S, n) == UNION {[1..k -> S] : k \in 0..n}

RECURSIVE EncodeVarint(_)
EncodeVarint(n) ==
    IF n < 128 THEN <<n>> ELSE <<128 + (n % 128)>> \o EncodeVarint(n \div 128)

RECURSIVE LEBytes(_, _)
LEBytes(n, k) == IF k = 0 THEN <<>> ELSE <<n % 256>> \o LEBytes(n \div 256, k - 1)

RECURSIVE BytesNeeded(_)
BytesNeeded(n) == IF n < 256 THEN 1 ELSE 1 + BytesNeeded(n \div 256)

(* a literal element for `bytes`, its length - 1 in k extension bytes (k = 0: in the tag) *)
EncLiteralExt(bytes, k) ==
    IF k = 0 THEN <<(Len(bytes) - 1) * 4>> \o bytes
    ELSE <<(59 + k) * 4>> \o LEBytes(Len(bytes) - 1, k) \o bytes

EncLiteral(bytes) ==
    EncLiteralExt(bytes, IF Len(bytes) <= 60 THEN 0 ELSE BytesNeeded(Len(bytes) - 1))

(* a copy element of the kind with 1, 2 or 4 offset bytes *)
EncCopy(kind, offset, length) ==
    IF kind = 1
    THEN <<1 + (length - 4) * 4 + (offset \div 256) * 32, offset % 256>>
    ELSE IF kind = 2
    THEN <<2 + (length - 1) * 4>> \o LEBytes(offset, 2)
    ELSE <<3 + (length - 1) * 4>> \o LEBytes(offset, 4)

CopyKinds(offset, length) ==
    {k \in {1, 2, 4} :
        /\ k = 1 => (length >= 4 /\ length <= 11 /\ offset < 2048)
        /\ k = 2 => (length <= 64 /\ offset < 65536)
        /\ k = 4 => length <= 64}

(* B[p .. p+n) repeats the bytes `offset` back *)
Repeats(B, p, offset, n) == \A i \in 0..(n - 1) : At(B, p + i) = At(B, p + i - offset)

(* the element sequences, as bytes, that reproduce B from position p on *)
RECURSIVE EncodeFrom(_, _)
EncodeFrom(B, p) ==
    IF p >= Len(B) THEN {<<>>}
    ELSE LET rest == Len(B) - p
             lits == {EncLiteral(Slice(B, p, p + n)) \o t :
                         <<n, t>> \in UNION {{n} \X EncodeFrom(B, p + n) : n \in 1..rest}}
             cps  == UNION {UNION {{EncCopy(k, o, n) \o t :
                                       <<k, t>> \in CopyKinds(o, n) \X EncodeFrom(B, p + n)} :
                                   n \in {m \in 1..rest : Repeats(B, p, o, m)}} :
                            o \in 1..p}
         IN  lits \cup cps

Encodings(B) == {EncodeVarint(Len(B)) \o t : t \in EncodeFrom(B, 0)}

Fill(n) == [i \in 1..n |-> 97 + (i % 2)]

(* n bytes of period q, as one literal of q bytes and one copy of the rest *)
Runs ==
    UNION {{<<EncodeVarint(n) \o EncLiteral(Slice(Fill(n), 0, q)) \o EncCopy(k, q, n - q),
              Fill(n)>> : k \in CopyKinds(q, n - q)} :
              <<q, n>> \in {<<2, m>> : m \in 3..MaxRun}}
    \cup UNION {{<<EncodeVarint(n) \o EncLiteral(<<97>>) \o EncCopy(k, 1, n - 1),
                   [i \in 1..n |-> 97]>> : k \in CopyKinds(1, n - 1)} : n \in 2..MaxRun}

(* literals around the 60-byte boundary, and ones that need a two-byte varint *)
(* and one or two extension bytes                                             *)
LongLiterals ==
    {<<EncodeVarint(n) \o EncLiteral(Fill(n)), Fill(n)>> : n \in (59..MaxLit) \cup {128, 256, 300}}

(* 300 bytes without period, then their first 4 bytes again as a copy from 300 back *)
FarPlain == [i \in 1..300 |-> i % 251]

FarCopies ==
    {<<EncodeVarint(304) \o EncLiteral(FarPlain) \o EncCopy(k, 300, 4),
       FarPlain \o SubSeq(FarPlain, 1, 4)>> : k \in CopyKinds(300, 4)}

(* conforming streams, each with the plain text it encodes *)
Conforming ==
    UNION {{<<s, B>> : s \in Encodings(B)} : B \in SeqsUpTo(PlainBytes, MaxPlain)}
    \cup LongLiterals \cup FarCopies \cup Runs

(* crafted elements: literals in every length form, copies with offsets 0, 1 and 3 *)
CraftLiterals ==
    {EncLiteralExt(<<97>>, 0), EncLiteralExt(<<97, 98>>, 0),
     EncLiteralExt(<<97, 98>>, 1), EncLiteralExt(<<98>>, 2)}

CraftCopies ==
    {EncCopy(1, o, 4) : o \in {0, 1, 3}}
    \cup {EncCopy(2, o, 2) : o \in {0, 1, 3}}
    \cup {EncCopy(4, o, 3) : o \in {0, 1, 3}}

CraftElems == CraftLiterals \cup CraftCopies

RECURSIVE Concat(_)
Concat(ss) == IF ss = <<>> THEN <<>> ELSE Head(ss) \o Concat(Tail(ss))

Prefixes(s) == {SubSeq(s, 1, k) : k \in 0..Len(s)}

Declared == {0, 1, 2, 5, 6, 10}

(* a declared length, no or one literal, up to MaxElems crafted elements; cut anywhere *)
Crafted ==
    UNION {Prefixes(<<h>> \o l \o Concat(es)) :
              <<h, l, es>> \in Declared \X ({<<>>} \cup CraftLiterals)
                                       \X SeqsUpTo(CraftElems, MaxElems)}

(* literals with 3 and 4 extension bytes, copies with wide offsets *)
WideElems ==
    {EncLiteralExt(<<97, 98>>, 3), EncLiteralExt(<<97>>, 4),
     EncCopy(1, 257, 4), EncCopy(2, 258, 1), EncCopy(4, 65537, 1),
     EncCopy(4, 16777216, 2)}

Wide == {<<h>> \o EncLiteral(<<97>>) \o e : <<h, e>> \in Declared \X WideElems}

(* length varints of up to MaxVarintBytes bytes, alone or before one literal *)
VarintHeads ==
    UNION {{c \o t : <<c, t>> \in [1..k -> {128, 255}] \X {<<>>, <<0>>, <<1>>, <<127>>}} :
              k \in 0..(MaxVarintBytes - 1)}

Varints == {v \o t : <<v, t>> \in VarintHeads \X {<<>>, EncLiteral(<<97>>)}}

ByteSet == {0, 1, 2, 4, 5, 10, 128, 240}

Arbitrary == SeqsUpTo(ByteSet, MaxLen)

Inputs ==
    Conforming \cup {<<s, NoOrig>> : s \in Crafted \cup Wide \cup Varints \cup Arbitrary}

----------------------------------------------------------------------------
(* decompress *)

(* the exception carrying the bytes decoded so far *)
Raise_Partial(msg, p, e) ==
    /\ pc' = "Failed"
    /\ err' = msg
    /\ pos' = p
    /\ elem' = e
    /\ result' = Bytes(output, out_size)
    /\ UNCHANGED <<data, uncompressed_len, output, out_size, out_pos, orig>>

(* raise CompressionError(msg): the call ends, nothing is returned *)
Raise(msg, p, e) ==
    /\ pc' = "Failed"
    /\ err' = msg
    /\ pos' = p
    /\ elem' = e
    /\ result' = NoBytes
    /\ UNCHANGED <<data, uncompressed_len, output, out_size, out_pos, orig>>

(* the empty input not short-circuited *)
IsEmpty_Never(d) == FALSE

(* not data *)
IsEmpty(d) == d = <<>>

(* if not data: return b"" *)
EmptyInput ==
    /\ pc = "ReadLength"
    /\ IsEmpty(data)
    /\ pc' = "Done"
    /\ result' = EmptyBytes
    /\ UNCHANGED <<data, pos, uncompressed_len, output, out_size, out_pos,
                   err, elem, orig>>

(* uncompressed_len, pos = _decode_varint(data, pos); output = bytearray(...) *)
ReadLength ==
    /\ pc = "ReadLength"
    /\ ~IsEmpty(data)
    /\ LET v == decode_varint(data, 0)
       IN  IF v.ok
           THEN /\ pc' = "DecodeLoop"
                /\ uncompressed_len' = v.value
                /\ pos' = v.pos
                /\ out_size' = v.value
                /\ output' = <<>>
                /\ out_pos' = 0
                /\ UNCHANGED <<data, err, result, elem, orig>>
           ELSE Raise(v.err, v.pos, elem)

LoopCond ==
    /\ pc = "DecodeLoop"
    /\ pos < Len(data)
    /\ LimbLess(Limbs(out_pos), uncompressed_len)

(* the overflow check left out *)
Overflows_Never(length) == FALSE

(* the overflow check one byte too lenient *)
Overflows_OffByOne(length) == LimbLess(uncompressed_len, Limbs(out_pos + length - 1))

(* out_pos + length > uncompressed_len *)
Overflows(length) == LimbLess(uncompressed_len, Limbs(out_pos + length))

(* pos + extra_bytes > len(data) *)
LiteralLengthShort(p, extra_bytes) == p + extra_bytes > Len(data)

(* the payload check off by one *)
LiteralDataShort_OffByOne(p, length) == p + length > Len(data) + 1

(* pos + length > len(data) *)
LiteralDataShort(p, length) == p + length > Len(data)

(* the literal branch without its cursor updates *)
Literal_NoAdvance ==
    /\ LoopCond
    /\ BitAnd(At(data, pos), 3) = 0
    /\ UNCHANGED vars

Literal ==
    /\ LoopCond
    /\ LET tag == At(data, pos)
           p1 == pos + 1
           length0 == Shr(tag, 2) + 1
           extra_bytes == IF length0 <= LiteralDirectMax THEN 0
                          ELSE length0 - LiteralDirectMax
       IN  /\ BitAnd(tag, 3) = 0
           /\ IF extra_bytes > 0 /\ LiteralLengthShort(p1, extra_bytes)
              THEN Raise(ErrTruncatedLiteralLength, p1,
                         Elem("literal", tag, -1, -1, 0))
              ELSE LET length == IF extra_bytes = 0 THEN length0
                                 ELSE LiteralExtLength(data, p1, extra_bytes)
                       p2 == p1 + extra_bytes
                       e == Elem("literal", tag, length, -1, extra_bytes)
                   IN  IF LiteralDataShort(p2, length)
                       THEN Raise(ErrTruncatedLiteralData, p2, e)
                       ELSE IF Overflows(length)
                       THEN Raise(ErrOverflowLiteral, p2, e)
                       ELSE /\ output' = SetSlice(output, out_pos,
                                                  Slice(data, p2, p2 + length))
                            /\ pos' = p2 + length
                            /\ out_pos' = out_pos + length
                            /\ elem' = e
                            /\ UNCHANGED <<data, uncompressed_len, out_size,
                                           pc, err, result, orig>>

(* the zero-offset check left out *)
ZeroOffset_Never(offset) == FALSE

(* the check written as offset < 0 *)
ZeroOffset_Negative(offset) == offset < 0

(* offset == 0 *)
ZeroOffset(offset) == offset = 0

(* offset > out_pos *)
OffsetExceeds(offset) == offset > out_pos

(* the overflow check made before the offset checks *)
CopyBody_OverflowFirst(type, tag, length, offset, p, overflowErr) ==
    LET e == Elem(type, tag, length, offset, p - (pos + 1))
    IN  IF Overflows(length)
        THEN Raise(overflowErr, p, e)
        ELSE IF ZeroOffset(offset)
        THEN Raise(ErrZeroOffset, p, e)
        ELSE IF OffsetExceeds(offset)
        THEN Raise(ErrOffsetExceeds, p, e)
        ELSE /\ output' = CopyLoop(output, out_pos, offset, length, 0)
             /\ out_pos' = out_pos + length
             /\ pos' = p
             /\ elem' = e
             /\ UNCHANGED <<data, uncompressed_len, out_size, pc, err, result, orig>>

(* the checks and the byte loop that follow the offset in each copy branch *)
CopyBody(type, tag, length, offset, p, overflowErr) ==
    LET e == Elem(type, tag, length, offset, p - (pos + 1))
    IN  IF ZeroOffset(offset)
        THEN Raise(ErrZeroOffset, p, e)
        ELSE IF OffsetExceeds(offset)
        THEN Raise(ErrOffsetExceeds, p, e)
        ELSE IF Overflows(length)
        THEN Raise(overflowErr, p, e)
        ELSE /\ output' = CopyLoop(output, out_pos, offset, length, 0)
             /\ out_pos' = out_pos + length
             /\ pos' = p
             /\ elem' = e
             /\ UNCHANGED <<data, uncompressed_len, out_size, pc, err, result, orig>>

Copy1 ==
    /\ LoopCond
    /\ LET tag == At(data, pos)
           p1 == pos + 1
       IN  /\ BitAnd(tag, 3) = 1
           /\ IF p1 >= Len(data)
              THEN Raise(ErrTruncatedCopy1, p1,
                         Elem("copy1", tag, Copy1Length(tag), -1, 0))
              ELSE CopyBody("copy1", tag, Copy1Length(tag),
                            Copy1Offset(data, p1, tag), p1 + 1, ErrOverflowCopy1)

Copy2 ==
    /\ LoopCond
    /\ LET tag == At(data, pos)
           p1 == pos + 1
       IN  /\ BitAnd(tag, 3) = 2
           /\ IF p1 + 2 > Len(data)
              THEN Raise(ErrTruncatedCopy2, p1,
                         Elem("copy2", tag, Copy2Length(tag), -1, 0))
              ELSE CopyBody("copy2", tag, Copy2Length(tag),
                            Copy2Offset(data, p1), p1 + 2, ErrOverflowCopy2)

Copy4 ==
    /\ LoopCond
    /\ LET tag == At(data, pos)
           p1 == pos + 1
       IN  /\ BitAnd(tag, 3) = 3
           /\ IF p1 + 4 > Len(data)
              THEN Raise(ErrTruncatedCopy4, p1,
                         Elem("copy4", tag, Copy4Length(tag), -1, 0))
              ELSE CopyBody("copy4", tag, Copy4Length(tag),
                            Copy4Offset(data, p1), p1 + 4, ErrOverflowCopy4)

(* the final check left out *)
SizeMismatch_Never == FALSE

(* the final check made only while input is left *)
SizeMismatch_InputLeft == Limbs(out_pos) # uncompressed_len /\ pos < Len(data)

(* the final check written as out_pos > uncompressed_len *)
SizeMismatch_Greater == LimbLess(uncompressed_len, Limbs(out_pos))

(* out_pos != uncompressed_len *)
SizeMismatch == Limbs(out_pos) # uncompressed_len

(* the loop condition is false: the final size check and the return *)
LoopExit ==
    /\ pc = "DecodeLoop"
    /\ ~LoopCond
    /\ IF SizeMismatch
       THEN Raise(ErrSizeMismatch, pos, elem)
       ELSE /\ pc' = "Done"
            /\ result' = Bytes(output, out_size)
            /\ UNCHANGED <<data, pos, uncompressed_len, output, out_size, out_pos,
                           err, elem, orig>>

Next ==
    \/ EmptyInput
    \/ ReadLength
    \/ Literal
    \/ Copy1
    \/ Copy2
    \/ Copy4
    \/ LoopExit

Init ==
    /\ \E in \in Inputs : data = in[1] /\ orig = in[2]
    /\ pos = 0
    /\ uncompressed_len = [hi |-> 0, lo |-> 0]
    /\ output = <<>>
    /\ out_size = [hi |-> 0, lo |-> 0]
    /\ out_pos = 0
    /\ pc = "ReadLength"
    /\ err = NoErr
    /\ result = NoBytes
    /\ elem = NoElem

Spec == Init /\ [][Next]_vars

(* the call runs on: a step that can be taken is taken; on the shorter inputs *)
FairInit == Init /\ Len(data) <= MaxLen + 2

FairSpec == FairInit /\ [][Next]_vars /\ WF_vars(Next)

----------------------------------------------------------------------------
(* _decode_varint on its own, called at any cursor of any input *)

VarintInputs ==
    {j \o v \o t : <<j, v, t>> \in SeqsUpTo({0, 255}, MaxStart) \X VarintHeads
                                      \X {<<>>, <<255>>}}

VarintInit ==
    /\ \E in \in VarintInputs, s \in 0..MaxStart :
          /\ s <= Len(in)
          /\ data = in
          /\ pos = s
          /\ elem = [NoElem EXCEPT !.type = "varint", !.pos0 = s]
    /\ orig = NoOrig
    /\ uncompressed_len = [hi |-> 0, lo |-> 0]
    /\ output = <<>>
    /\ out_size = [hi |-> 0, lo |-> 0]
    /\ out_pos = 0
    /\ pc = "Varint"
    /\ err = NoErr
    /\ result = NoBytes

(* value, pos = _decode_varint(data, pos) *)
VarintCall ==
    /\ pc = "Varint"
    /\ LET v == decode_varint(data, pos)
       IN  /\ pc' = IF v.ok THEN "Returned" ELSE "Failed"
           /\ err' = v.err
           /\ uncompressed_len' = IF v.ok THEN v.value ELSE uncompressed_len
           /\ pos' = v.pos
    /\ UNCHANGED <<data, output, out_size, out_pos, result, elem, orig>>

VarintNext == VarintCall

VarintSpec == VarintInit /\ [][VarintNext]_vars

----------------------------------------------------------------------------
(* The error kinds of the specification, by message *)

Truncated == {ErrTruncatedVarint, ErrTruncatedLiteralLength, ErrTruncatedLiteralData,
              ErrTruncatedCopy1, ErrTruncatedCopy2, ErrTruncatedCopy4}

Overflow == {ErrVarintTooLarge, ErrOverflowLiteral, ErrOverflowCopy1,
             ErrOverflowCopy2, ErrOverflowCopy4}

InvalidOffset == {ErrZeroOffset, ErrOffsetExceeds}

Terminated == pc \in {"Done", "Failed"}

CopyTypes == {"copy1", "copy2", "copy4"}

(* the returned bytes as a sequence, for a result of small size *)
ResultSeq == result.cells \o Zeros(result.size.lo - Len(result.cells))

(* the last element was a copy that passed its checks and wrote its bytes *)
CopyActed == elem.type \in CopyTypes /\ out_pos = elem.out0 + elem.length

(* the bytes d[p .. p+n) as a little-endian unsigned integer *)
RECURSIVE LittleEndian(_, _, _)
LittleEndian(d, p, n) ==
    IF n = 0 THEN 0 ELSE At(d, p) + 256 * LittleEndian(d, p + 1, n - 1)

----------------------------------------------------------------------------
(* C1: round trip: for every stream a conforming encoder emits for the     *)
(* bytes B, the decoder does not fail, and when it has terminated it is in *)
(* Done and returns exactly B.                                             *)
RoundTrip ==
    (orig # NoOrig /\ Terminated) =>
        /\ pc = "Done"
        /\ result.size.hi = 0
        /\ ResultSeq = orig

RoundTripWitness ==
    /\ orig # NoOrig
    /\ pc = "Done"
    /\ elem.type = "copy2"
    /\ elem.offset < elem.length
    /\ ResultSeq = orig

(* C2: length invariant: after a successful decode of a non-empty input    *)
(* the returned bytes have the length declared by the varint, and out_pos  *)
(* equals that length.                                                     *)
LengthInvariant ==
    (pc = "Done" /\ data # <<>>) =>
        /\ result.size = uncompressed_len
        /\ Limbs(Len(result.cells)) = uncompressed_len
        /\ Limbs(out_pos) = uncompressed_len

LengthInvariantWitness ==
    /\ pc = "Done"
    /\ data # <<>>
    /\ out_pos >= 2
    /\ Limbs(out_pos) = uncompressed_len

(* C3: copy semantics with overlap: after a copy that passed its checks,   *)
(* with P the output cursor before it, byte P + i of the output equals     *)
(* byte P - offset + (i mod offset) of the output before the copy, and the *)
(* bytes below P are unchanged.                                            *)
CopySemantics ==
    CopyActed =>
        /\ \A i \in 0..(elem.length - 1) :
              OutAt(output, elem.out0 + i)
                  = OutAt(elem.pre, elem.out0 - elem.offset + (i % elem.offset))
        /\ \A j \in 0..(elem.out0 - 1) : OutAt(output, j) = OutAt(elem.pre, j)

CopySemanticsWitness ==
    /\ CopyActed
    /\ elem.offset = 1
    /\ elem.length >= 4
    /\ OutAt(elem.pre, elem.out0 - 1) # 0
    /\ \A i \in 0..(elem.length - 1) :
          OutAt(output, elem.out0 + i) = OutAt(elem.pre, elem.out0 - 1)

(* C4: literal length boundary: with v = (tag >> 2) + 1, a literal whose   *)
(* length is decoded has length v and consumes no extension byte when      *)
(* v <= 60, and otherwise consumes exactly v - 60 (1..4) extension bytes   *)
(* and has length 1 + their little-endian value; the input cursor is past  *)
(* the tag and the extension bytes, and past the payload too once the      *)
(* literal is copied.                                                      *)
LiteralLengthBoundary ==
    (elem.type = "literal" /\ elem.length # -1) =>
        LET v == (elem.tag \div 4) + 1
            n == IF v <= 60 THEN 0 ELSE v - 60
            copied == out_pos = elem.out0 + elem.length
        IN  /\ n \in 0..4
            /\ v <= 60 => elem.length = v
            /\ v > 60 => elem.length = 1 + LittleEndian(data, elem.pos0 + 1, n)
            /\ elem.tag = 236 => (elem.length = 60 /\ n = 0)
            /\ pos = elem.pos0 + 1 + n + (IF copied THEN elem.length ELSE 0)

LiteralLengthBoundaryWitness ==
    /\ elem.type = "literal"
    /\ elem.tag = 240
    /\ elem.length = 61
    /\ At(data, elem.pos0 + 1) = 60
    /\ pos = elem.pos0 + 2 + 61
    /\ pc = "Done"

(* C5: invalid-offset rejection: a copy of any kind whose decoded offset   *)
(* is 0 or greater than the output cursor fails with InvalidOffset, writes *)
(* nothing and returns no output.                                          *)
InvalidOffsetRejected ==
    (elem.type \in CopyTypes /\ elem.offset # -1
        /\ (elem.offset = 0 \/ elem.offset > elem.out0)) =>
        /\ pc = "Failed"
        /\ err \in InvalidOffset
        /\ result = NoBytes
        /\ output = elem.pre
        /\ out_pos = elem.out0

InvalidOffsetRejectedWitness ==
    /\ elem.type = "copy4"
    /\ elem.offset > elem.out0
    /\ elem.out0 > 0
    /\ pc = "Failed"
    /\ err = ErrOffsetExceeds

(* no byte of d has its high bit clear *)
NoTerminator(d) == \A i \in 1..Len(d) : d[i] >= 128

(* C6 as stated: a non-empty input that ends before a byte with the high   *)
(* bit clear is read for the length varint fails with a Truncated error.   *)
TruncatedVarintAsStated ==
    (data # <<>> /\ NoTerminator(data) /\ pc # "ReadLength") =>
        (pc = "Failed" /\ err = ErrTruncatedVarint)

(* C6: a non-empty input without a byte with the high bit clear fails:     *)
(* with Truncated, the cursor at the end of the input, when it has at most *)
(* 4 bytes, and with Overflow (at the fifth continuation byte) otherwise.  *)
TruncatedVarint ==
    (data # <<>> /\ NoTerminator(data) /\ pc # "ReadLength") =>
        /\ pc = "Failed"
        /\ result = NoBytes
        /\ Len(data) <= 4 => (err = ErrTruncatedVarint /\ pos = Len(data))
        /\ Len(data) >= 5 => (err = ErrVarintTooLarge /\ pos = 5)

TruncatedVarintWitness ==
    /\ Len(data) = 4
    /\ NoTerminator(data)
    /\ pc = "Failed"
    /\ err = ErrTruncatedVarint

(* C7: truncated literal: a literal whose extension bytes are missing, or  *)
(* whose decoded length exceeds the input bytes left after the tag and the *)
(* extension bytes, fails with Truncated, and no payload byte is copied.   *)
TruncatedLiteral ==
    elem.type = "literal" =>
        LET v == (elem.tag \div 4) + 1
            n == IF v <= 60 THEN 0 ELSE v - 60
            avail == Len(data) - (elem.pos0 + 1)
            missingExt == n > avail
            length == IF n = 0 THEN v ELSE 1 + LittleEndian(data, elem.pos0 + 1, n)
            short == ~missingExt /\ length > avail - n
        IN  /\ missingExt => (pc = "Failed" /\ err = ErrTruncatedLiteralLength)
            /\ short => (pc = "Failed" /\ err = ErrTruncatedLiteralData)
            /\ (missingExt \/ short) =>
                   /\ err \in Truncated
                   /\ output = elem.pre
                   /\ out_pos = elem.out0
                   /\ result = NoBytes

TruncatedLiteralWitness ==
    /\ data = <<10, 4>>
    /\ elem.type = "literal"
    /\ elem.length = 2
    /\ pc = "Failed"
    /\ err = ErrTruncatedLiteralData

(* C8: size mismatch: when the loop stops with the input exhausted and     *)
(* out_pos below the declared length, the next step fails with             *)
(* SizeMismatch and returns no output.                                     *)
SizeMismatchOnExhaustion ==
    [][(/\ pc = "DecodeLoop"
        /\ pos >= Len(data)
        /\ LimbLess(Limbs(out_pos), uncompressed_len))
       => (pc' = "Failed" /\ err' = ErrSizeMismatch /\ result' = NoBytes)]_vars

SizeMismatchOnExhaustionWitness ==
    /\ pc = "Failed"
    /\ err = ErrSizeMismatch
    /\ uncompressed_len = Limbs(10)
    /\ out_pos = 2
    /\ pos = Len(data)

(* the length varint was returned by _decode_varint *)
VarintReturned ==
    /\ data # <<>>
    /\ pc # "ReadLength"
    /\ ~(pc = "Failed" /\ err \in {ErrTruncatedVarint, ErrVarintTooLarge})

(* C9: every value the varint reader returns is below 2^32 (16 * 2^28);    *)
(* a varint with more bits fails with Overflow and is never used as        *)
(* uncompressed_len.                                                       *)
VarintFits32 == VarintReturned => uncompressed_len.hi < 16

(* C10: empty input: the zero-length input ends in Done with the           *)
(* zero-length output; no varint and no element is read, no error raised.  *)
EmptyInputDone ==
    (data = <<>> /\ pc # "ReadLength") =>
        /\ pc = "Done"
        /\ result = EmptyBytes
        /\ err = NoErr
        /\ pos = 0
        /\ elem = NoElem
        /\ uncompressed_len = [hi |-> 0, lo |-> 0]
        /\ output = <<>>

EmptyInputDoneWitness ==
    /\ data = <<>>
    /\ pc = "Done"
    /\ result.cells = <<>>
    /\ result.size = Limbs(0)

(* C11: all-or-nothing: Done and Failed are terminal (no step leaves       *)
(* them); the step that fails writes nothing to the output, moves no       *)
(* output cursor and returns no bytes; the step that reaches Done returns  *)
(* the complete output; before that nothing is returned.                   *)
AllOrNothing ==
    [][/\ ~Terminated
       /\ pc' = "Failed" =>
             (output' = output /\ out_pos' = out_pos /\ result' = NoBytes
                 /\ err' # NoErr)
       /\ pc' = "Done" =>
             (/\ result'.cells = output'
              /\ result'.size = out_size'
              /\ Limbs(Len(result'.cells)) = result'.size
              /\ err' = NoErr)
       /\ pc' \notin {"Done", "Failed"} => result' = NoBytes]_vars

AllOrNothingWitness ==
    /\ pc = "Failed"
    /\ err = ErrOverflowCopy2
    /\ elem.n = 2
    /\ output # <<>>
    /\ result = NoBytes

(* the bytes d[s .. s+n) taken as base-128 digits, least significant first *)
RECURSIVE Base128(_, _, _)
Base128(d, s, n) ==
    IF n = 0 THEN 0 ELSE (At(d, s) % 128) + 128 * Base128(d, s + 1, n - 1)

(* the number of bytes with the high bit set at the front of d[s ..] *)
RECURSIVE LeadCont(_, _)
LeadCont(d, s) ==
    IF s >= Len(d) \/ At(d, s) < 128 THEN 0 ELSE 1 + LeadCont(d, s + 1)

(* C12: varint value and cursor: a varint accepted at cursor s consumed k  *)
(* bytes, the first k - 1 with the high bit set and the last with it       *)
(* clear; the value is the sum of (b_i & 0x7F) * 2^(7i) and the new cursor *)
(* is s + k.                                                               *)
VarintValueAndCursor ==
    pc = "Returned" =>
        LET s == elem.pos0
            k == LeadCont(data, s) + 1
        IN  /\ pos = s + k
            /\ k <= 5
            /\ At(data, s + k - 1) < 128
            /\ uncompressed_len.lo = Base128(data, s, IF k < 4 THEN k ELSE 4)
            /\ uncompressed_len.hi = (IF k = 5 THEN At(data, s + 4) % 128 ELSE 0)

VarintValueAndCursorWitness ==
    /\ pc = "Returned"
    /\ elem.pos0 = 2
    /\ pos = 5
    /\ pos < Len(data)
    /\ uncompressed_len.lo = 127 + 128 * 127 + 128 * 128

(* C13 as stated: Overflow is raised only once more than 5 continuation    *)
(* bytes are consumed; 5 or fewer are not rejected with Overflow.          *)
VarintLimitAsStated ==
    (pc = "Failed" /\ err = ErrVarintTooLarge) => pos - elem.pos0 > 5

(* C13: the varint reader fails with Overflow exactly when a fifth         *)
(* continuation byte is consumed (the shift then is 35 > 32); a varint     *)
(* with 4 or fewer continuation bytes is not rejected with Overflow.       *)
VarintLimit ==
    pc \in {"Returned", "Failed"} =>
        /\ (err = ErrVarintTooLarge) <=> (LeadCont(data, elem.pos0) >= 5)
        /\ err = ErrVarintTooLarge => (pc = "Failed" /\ pos = elem.pos0 + 5)
        /\ (LeadCont(data, elem.pos0) = 4 /\ Len(data) > elem.pos0 + 4) =>
               (pc = "Returned" /\ pos = elem.pos0 + 5)

VarintLimitWitness ==
    /\ pc = "Failed"
    /\ err = ErrVarintTooLarge
    /\ elem.pos0 = 1
    /\ pos = 6
    /\ LeadCont(data, 1) = 5

(* the last element has a decoded length that does not fit the output *)
ElemOverflows ==
    /\ elem.type \in {"literal"} \cup CopyTypes
    /\ elem.length # -1
    /\ LimbLess(uncompressed_len, Limbs(elem.out0 + elem.length))

(* the Overflow message of the last element's kind *)
ElemOverflowErr ==
    CASE elem.type = "literal" -> ErrOverflowLiteral
      [] elem.type = "copy1" -> ErrOverflowCopy1
      [] elem.type = "copy2" -> ErrOverflowCopy2
      [] elem.type = "copy4" -> ErrOverflowCopy4

(* C14 as stated: any element whose length makes out_pos + length exceed   *)
(* uncompressed_len fails with Overflow, none of its bytes written.        *)
OutputOverflowAsStated ==
    ElemOverflows => (pc = "Failed" /\ err \in Overflow /\ output = elem.pre)

(* C14: an element whose length makes out_pos + length exceed              *)
(* uncompressed_len fails and none of its bytes are written; the failure   *)
(* is Overflow when no earlier check of the element rejects it (payload    *)
(* present for a literal; offset bytes present and 1 <= offset <= out_pos  *)
(* for a copy), and Truncated or InvalidOffset otherwise.                  *)
OutputOverflow ==
    ElemOverflows =>
        LET earlierOk ==
                IF elem.type = "literal"
                THEN elem.pos0 + 1 + elem.extra + elem.length <= Len(data)
                ELSE elem.offset >= 1 /\ elem.offset <= elem.out0
        IN  /\ pc = "Failed"
            /\ output = elem.pre
            /\ out_pos = elem.out0
            /\ result = NoBytes
            /\ earlierOk => err = ElemOverflowErr
            /\ ~earlierOk => err \in Truncated \cup InvalidOffset

OutputOverflowWitness ==
    /\ ElemOverflows
    /\ elem.type = "copy4"
    /\ elem.offset = 1
    /\ pc = "Failed"
    /\ err = ErrOverflowCopy4

(* C15: cursor bounds: in every state 0 <= pos <= len(data) and            *)
(* 0 <= out_pos <= uncompressed_len, and no step decreases either cursor.  *)
CursorBounds ==
    /\ [](/\ 0 <= pos
          /\ pos <= Len(data)
          /\ 0 <= out_pos
          /\ ~LimbLess(uncompressed_len, Limbs(out_pos)))
    /\ [][pos' >= pos /\ out_pos' >= out_pos]_vars

CursorBoundsWitness ==
    /\ pc = "DecodeLoop"
    /\ elem.n = 2
    /\ pos = Len(data)
    /\ pos > elem.pos0
    /\ out_pos > elem.out0
    /\ elem.out0 > 0
    /\ Limbs(out_pos) = uncompressed_len

(* C16: termination: every loop iteration, failing or not, moves the input *)
(* cursor forward by at least 1, the number of iterations begun never      *)
(* exceeds len(data) (hence len(data) + uncompressed_len), and every call  *)
(* eventually reaches Done or Failed.                                      *)
Termination ==
    /\ [][elem'.n = elem.n + 1 => pos' >= pos + 1]_vars
    /\ [](elem.n <= Len(data))
    /\ <>Terminated

TerminationWitness ==
    /\ pc = "Done"
    /\ elem.n = 2
    /\ elem.type \in CopyTypes
    /\ pos = Len(data)

(* C17 as stated: Done on a non-empty input means the declared length is   *)
(* reached and the input cursor is at the end of the input.                *)
CompletionExhaustsInput ==
    (pc = "Done" /\ data # <<>>) =>
        (Limbs(out_pos) = uncompressed_len /\ pos = Len(data))

(* C17: Done on a non-empty input means the declared length is reached,    *)
(* the loop condition is false and the result is the buffer; the input     *)
(* cursor is within the input but need not be at its end.                  *)
CompletionAtLength ==
    (pc = "Done" /\ data # <<>>) =>
        /\ Limbs(out_pos) = uncompressed_len
        /\ pos <= Len(data)
        /\ ~LimbLess(Limbs(out_pos), uncompressed_len)
        /\ result = Bytes(output, out_size)

CompletionAtLengthWitness ==
    /\ pc = "Done"
    /\ elem.n = 1
    /\ out_pos > 0
    /\ pos < Len(data)

(* The last element read again from the input: its kind, the bytes after   *)
(* the tag that carry its offset or length extension, and each check it    *)
(* violates, in terms of the cursors as they were before it.               *)
TagKind == elem.tag % 4

TagOffsetBytes == CASE TagKind = 1 -> 1 [] TagKind = 2 -> 2 [] TagKind = 3 -> 4

TagExtBytes == IF (elem.tag \div 4) + 1 <= 60 THEN 0 ELSE (elem.tag \div 4) + 1 - 60

CopyCut == elem.pos0 + 1 + TagOffsetBytes > Len(data)

TagCopyLength ==
    IF TagKind = 1 THEN ((elem.tag \div 4) % 8) + 4 ELSE (elem.tag \div 4) + 1

TagCopyOffset ==
    IF TagKind = 1
    THEN (elem.tag \div 32) * 256 + At(data, elem.pos0 + 1)
    ELSE LittleEndian(data, elem.pos0 + 1, TagOffsetBytes)

ExtCut == elem.pos0 + 1 + TagExtBytes > Len(data)

TagLiteralLength ==
    IF TagExtBytes = 0 THEN (elem.tag \div 4) + 1
    ELSE 1 + LittleEndian(data, elem.pos0 + 1, TagExtBytes)

PayloadCut == elem.pos0 + 1 + TagExtBytes + TagLiteralLength > Len(data)

PastEnd(length) == LimbLess(uncompressed_len, Limbs(elem.out0 + length))

TruncatedCopyErr ==
    CASE TagKind = 1 -> ErrTruncatedCopy1
      [] TagKind = 2 -> ErrTruncatedCopy2
      [] TagKind = 3 -> ErrTruncatedCopy4

(* the error of the earliest violated check of the last element, in the    *)
(* order Truncated, zero offset, offset beyond the output, Overflow for a  *)
(* copy and Truncated extension, Truncated payload, Overflow for a literal *)
FirstViolated ==
    IF TagKind = 0
    THEN IF ExtCut THEN ErrTruncatedLiteralLength
         ELSE IF PayloadCut THEN ErrTruncatedLiteralData
         ELSE IF PastEnd(TagLiteralLength) THEN ErrOverflowLiteral
         ELSE NoErr
    ELSE IF CopyCut THEN TruncatedCopyErr
         ELSE IF TagCopyOffset = 0 THEN ErrZeroOffset
         ELSE IF TagCopyOffset > elem.out0 THEN ErrOffsetExceeds
         ELSE IF PastEnd(TagCopyLength) THEN ElemOverflowErr
         ELSE NoErr

(* C18: the element just processed ends with the error of the earliest     *)
(* check it violates (none: it is applied), and an element whose offset is *)
(* invalid is never reported as Overflow.                                  *)
CheckOrdering ==
    (elem.n >= 1 /\ err # ErrSizeMismatch) =>
        /\ err = FirstViolated
        /\ (TagKind # 0 /\ ~CopyCut /\ (TagCopyOffset = 0 \/ TagCopyOffset > elem.out0))
               => err \in InvalidOffset

CheckOrderingWitness ==
    /\ pc = "Failed"
    /\ TagKind # 0
    /\ err = ErrOffsetExceeds
    /\ PastEnd(TagCopyLength)
    /\ elem.out0 > 0

(* the last element is a copy whose offset bytes were all present *)
CopyDecoded == elem.type \in CopyTypes /\ elem.offset # -1

(* C19: a copy's length is ((tag >> 2) & 7) + 4 in 4..11 for kind 1 and    *)
(* (tag >> 2) + 1 in 1..64 for kinds 2 and 3; its offset is                *)
(* ((tag >> 5) << 8) | next byte in 0..2047 for kind 1 and the next 2 or 4 *)
(* bytes little-endian for kinds 2 and 3; the input cursor ends exactly 1, *)
(* 2 or 4 bytes after the tag; an applied copy moves out_pos by its length.*)
CopyFieldDecoding ==
    CopyDecoded =>
        /\ elem.type = (CASE TagKind = 1 -> "copy1" [] TagKind = 2 -> "copy2"
                          [] TagKind = 3 -> "copy4")
        /\ elem.tag = At(data, elem.pos0)
        /\ elem.length = TagCopyLength
        /\ elem.offset = TagCopyOffset
        /\ elem.extra = TagOffsetBytes
        /\ pos = elem.pos0 + 1 + TagOffsetBytes
        /\ IF TagKind = 1
           THEN elem.length \in 4..11 /\ elem.offset \in 0..2047
           ELSE elem.length \in 1..64 /\ elem.offset >= 0
        /\ err \in {NoErr, ErrSizeMismatch} =>
               /\ out_pos = elem.out0 + elem.length
               /\ Len(output) = out_pos
        /\ err \notin {NoErr, ErrSizeMismatch} => out_pos = elem.out0

CopyFieldDecodingWitness ==
    /\ pc = "Done"
    /\ elem.type = "copy1"
    /\ elem.offset > 255
    /\ out_pos = elem.out0 + elem.length

(* the last element passed all its checks and was applied *)
ElemApplied == elem.n >= 1 /\ err \in {NoErr, ErrSizeMismatch}

InInput(i) == 0 <= i /\ i < Len(data)

InOutput(i) == 0 <= i /\ LimbLess(Limbs(i), uncompressed_len)

(* C20: every index used is in range: the tag and the offset or extension  *)
(* bytes of the last element and the payload of an applied literal are at  *)
(* input indices in [0, len(data)); every cell written is at an index in   *)
(* [0, uncompressed_len); every copy source index is in [0, write index);  *)
(* the input cursor stays within 0..len(data); and a failed call carries   *)
(* one of the declared errors.                                             *)
NoOutOfBounds ==
    /\ pos \in 0..Len(data)
    /\ ~LimbLess(uncompressed_len, Limbs(Len(output)))
    /\ pc = "Failed" =>
           err \in Truncated \cup Overflow \cup InvalidOffset \cup {ErrSizeMismatch}
    /\ elem.n >= 1 =>
           /\ InInput(elem.pos0)
           /\ elem.tag = At(data, elem.pos0)
           /\ (elem.offset # -1 \/ elem.length # -1) =>
                  \A i \in 1..elem.extra : InInput(elem.pos0 + i)
    /\ (ElemApplied /\ elem.type = "literal") =>
           \A i \in 0..(elem.length - 1) :
               /\ InInput(elem.pos0 + 1 + elem.extra + i)
               /\ InOutput(elem.out0 + i)
    /\ (ElemApplied /\ elem.type \in CopyTypes) =>
           \A i \in 0..(elem.length - 1) :
               /\ 0 <= elem.out0 - elem.offset + i
               /\ elem.out0 - elem.offset + i < elem.out0 + i
               /\ InOutput(elem.out0 + i)

NoOutOfBoundsWitness ==
    /\ pc = "Done"
    /\ elem.type \in CopyTypes
    /\ elem.offset = elem.out0
    /\ Limbs(elem.out0 + elem.length) = uncompressed_len
    /\ pos = Len(data)
    /\ elem.pos0 + 1 + elem.extra = Len(data)

====
